---------------------------- MODULE Spec2Model ----------------------------
(***************************************************************************)
(* A model of the JSON syntax validator of rust-json: the document reader   *)
(* (src/utils.rs, UTF8Reader) and the grammar validator (src/validator.rs). *)
(*                                                                          *)
(* A Rust &str is modelled as the sequence of its UTF-8 bytes, so that      *)
(* slicing by byte offsets, string comparison and chars().nth(0) are what   *)
(* they are in the program.  The recursive productions are run as a stack   *)
(* of frames; one step is one loop iteration (or the one-shot body) of the  *)
(* production on top of the stack.                                          *)
(***************************************************************************)
EXTENDS Integers, Sequences, FiniteSets, TLC

(***************************************************************************)
(* UTF-8 text.                                                              *)
(***************************************************************************)

\* The UTF-8 encoding of one code point (Rust's String holds UTF-8).
Utf8Encode(c) ==
    IF c < 128 THEN <<c>>
    ELSE IF c < 2048 THEN <<192 + (c \div 64), 128 + (c % 64)>>
    ELSE IF c < 65536
         THEN <<224 + (c \div 4096), 128 + ((c \div 64) % 64), 128 + (c % 64)>>
    ELSE <<240 + (c \div 262144), 128 + ((c \div 4096) % 64),
           128 + ((c \div 64) % 64), 128 + (c % 64)>>

RECURSIVE Utf8String(_)
\* The String holding the code points cs, in order.
Utf8String(cs) ==
    IF cs = <<>> THEN <<>> ELSE Utf8Encode(Head(cs)) \o Utf8String(Tail(cs))

\* Whether byte b starts a character (it is no continuation byte).
IsCharBoundary(b) == b \notin 128..191

\* The code point of the character that starts at byte i of s.
CharAt(s, i) ==
    LET b == s[i] IN
    IF b < 128 THEN b
    ELSE IF b < 224 THEN (b - 192) * 64 + (s[i + 1] - 128)
    ELSE IF b < 240
         THEN (b - 224) * 4096 + (s[i + 1] - 128) * 64 + (s[i + 2] - 128)
    ELSE (b - 240) * 262144 + (s[i + 1] - 128) * 4096
         + (s[i + 2] - 128) * 64 + (s[i + 3] - 128)

\* chr.chars().nth(0).unwrap(): the first code point of a non-empty str.
FirstChar(chr) == CharAt(chr, 1)

RECURSIVE AscendingIn(_, _, _)
\* The elements of the set S of integers that lie in lo..hi, smallest first.
AscendingIn(S, lo, hi) ==
    IF lo > hi THEN <<>>
    ELSE IF lo = hi THEN (IF lo \in S THEN <<lo>> ELSE <<>>)
    ELSE LET mid == (lo + hi) \div 2
         IN  AscendingIn(S, lo, mid) \o AscendingIn(S, mid + 1, hi)

\* The byte positions of s at which a character starts.
CharStarts(s) == {i \in 1..Len(s) : IsCharBoundary(s[i])}

\* s.chars(): the code points of s, in order.
Chars(s) ==
    LET at == AscendingIn(CharStarts(s), 1, Len(s))
    IN  [k \in 1..Len(at) |-> CharAt(s, at[k])]

(***************************************************************************)
(* Extended grapheme clusters (UAX #29), as UnicodeSegmentation::graphemes  *)
(* (document, true) cuts them, for the character classes the documents of   *)
(* this model are made of: CR, LF, Control, Extend (combining marks, ZWJ)   *)
(* and everything else.                                                     *)
(***************************************************************************)

GB_Control(c) == c \in 0..31 \/ c \in 127..159

GB_Extend(c) == c \in 768..879 \/ c = 8205

\* No cluster boundary between code points a and b: GB3 (CR x LF) and GB9
\* (x Extend, x ZWJ), GB4 and GB5 breaking after and before every control.
GB_NoBreak(a, b) ==
    \/ a = 13 /\ b = 10
    \/ GB_Extend(b) /\ ~GB_Control(a)

\* The byte positions of s at which a grapheme cluster starts.
ClusterStarts(s) ==
    LET prev(i) == CHOOSE j \in (i - 4)..(i - 1) :
                       /\ j >= 1
                       /\ IsCharBoundary(s[j])
                       /\ \A k \in (j + 1)..(i - 1) : ~IsCharBoundary(s[k])
    IN  {i \in CharStarts(s) :
            i = 1 \/ ~GB_NoBreak(CharAt(s, prev(i)), CharAt(s, i))}

RECURSIVE Slices(_, _, _, _)
\* The slices of s that start at at[lo], ..., at[hi], each ending where the
\* next one starts.
Slices(s, at, lo, hi) ==
    IF lo > hi THEN <<>>
    ELSE IF lo = hi THEN <<SubSeq(s, at[lo], at[lo + 1] - 1)>>
    ELSE LET mid == (lo + hi) \div 2
         IN  Slices(s, at, lo, mid) \o Slices(s, at, mid + 1, hi)

\* UnicodeSegmentation::graphemes(document, true).collect(): the clusters of
\* s, each a slice of s.
graphemes(s) ==
    LET at == AscendingIn(ClusterStarts(s), 1, Len(s)) \o <<Len(s) + 1>>
    IN  Slices(s, at, 1, Len(at) - 1)

(***************************************************************************)
(* UTF8Reader.                                                              *)
(***************************************************************************)

RECURSIVE ByteLen(_, _, _)
\* g.len() summed over the clusters gs[lo..hi].
ByteLen(gs, lo, hi) ==
    IF lo > hi THEN 0
    ELSE IF lo = hi THEN Len(gs[lo])
    ELSE LET mid == (lo + hi) \div 2
         IN  ByteLen(gs, lo, mid) + ByteLen(gs, mid + 1, hi)

RECURSIVE SumsBefore(_, _, _, _)
\* What the closure of UTF8Reader::new returns for the clusters gs[lo..hi]:
\* for each, the value of `sum` when it is reached, the byte length of the
\* clusters before it (sum on reaching gs[lo]).
SumsBefore(gs, lo, hi, sum) ==
    IF lo > hi THEN <<>>
    ELSE IF lo = hi THEN <<sum>>
    ELSE LET mid == (lo + hi) \div 2
         IN  SumsBefore(gs, lo, mid, sum)
                 \o SumsBefore(gs, mid + 1, hi, sum + ByteLen(gs, lo, mid))

\* begin_index_map without the final push of line 79.
BeginIndexes_without_push(gs) == SumsBefore(gs, 1, Len(gs), 0)

\* begin_index_map as UTF8Reader::new builds it: the mapped clusters, then
\* the final sum pushed.
BeginIndexes(gs) ==
    SumsBefore(gs, 1, Len(gs), 0) \o <<ByteLen(gs, 1, Len(gs))>>

\* UTF8Reader::new(document).
UTF8Reader_new(text) ==
    LET gs == graphemes(text)
    IN  [document |-> text, begin_index_map |-> BeginIndexes(gs)]

VARIABLES
    document,         \* UTF8Reader.document: the text, as UTF-8 bytes
    begin_index_map,  \* UTF8Reader.begin_index_map
    stack,            \* the active calls of validate, innermost last
    ret,              \* the (result, step) pair a production just returned
    outcome,          \* what validate returned, once it has
    raised,           \* history: the production that first returned an Err
    looks,            \* history: the look_ahead calls made so far
    previous,         \* what the call of validate before this one returned
    probe             \* a look_ahead call made on the reader directly

vars ==
    <<document, begin_index_map, stack, ret, outcome, raised, looks,
      previous, probe>>

\* UTF8Reader::len.
len == Len(begin_index_map) - 1

\* UTF8Reader::look_ahead.  ok: UTF8ReaderResult::Ok(s); otherwise
\* OutOfBoundError(n).  n = l - index is a usize subtraction: a negative n
\* here stands for its underflow (a panic in a debug build, a wrapped value
\* in a release build).
look_ahead(index, width) ==
    LET l == len
        end_index == index + width
    IN  IF end_index > l
        THEN [ok |-> FALSE, s |-> <<>>, n |-> l - index]
        ELSE LET begin == begin_index_map[index + 1]
                 end == begin_index_map[index + width + 1]
             IN  [ok |-> TRUE, s |-> SubSeq(document, begin + 1, end), n |-> 0]

(***************************************************************************)
(* The validator's constants, as UTF-8 strings.                             *)
(***************************************************************************)

MAX_DEPTH == 100

ST_LSBRACKET == <<91>>
ST_RSBRACKET == <<93>>
ST_LCBRACKET == <<123>>
ST_RCBRACKET == <<125>>
ST_COLON == <<58>>
ST_COMMA == <<44>>

LN_TRUE == <<116, 114, 117, 101>>
LN_FALSE == <<102, 97, 108, 115, 101>>
LN_NULL == <<110, 117, 108, 108>>

LT_TRUE == <<116>>
LT_FALSE == <<102>>
LT_NULL == <<110>>

WS_CHARACTER_TABULATION == <<9>>
WS_LINE_FEED == <<10>>
WS_CARRIAGE_RETURN == <<13>>
WS_SPACE == <<32>>

SP_QUOTE == <<34>>
SP_REVERSE_SOLIDUS == <<92>>
SP_SOLIDUS == <<47>>
SP_BACKSPACE == <<98>>
SP_FORM_FEED == <<102>>
SP_LINE_FEED == <<110>>
SP_CARRIAGE_RETURN == <<114>>
SP_CHARACTER_TABULATION == <<116>>
SP_UNICODE == <<117>>
SP_MINUS == <<45>>
SP_DECIMAL_POINT == <<46>>

\* The string patterns "0" .. "9" of validate_json_value.
DigitStrings == {<<d>> : d \in 48..57}

is_insignificant_whitespace(chr) ==
    chr \in {WS_CHARACTER_TABULATION, WS_LINE_FEED, WS_CARRIAGE_RETURN, WS_SPACE}

(***************************************************************************)
(* Results.  A reason is the format string's fixed text and the text        *)
(* interpolated into it ("" when there is none).                            *)
(***************************************************************************)

Reason(msg, arg) == [msg |-> msg, arg |-> arg]

NoReason == Reason("", <<>>)

\* Ok(())
Ok == [ok |-> TRUE, reason |-> NoReason]

\* Err(format!(msg, arg))
Err(msg, arg) == [ok |-> FALSE, reason |-> Reason(msg, arg)]

\* validate's local fn error: the message "Validation Error @ 1:{index + 1}
\* \nReason: {reason}", kept as its three interpolated parts.
error(index, reason) ==
    [done |-> TRUE, ok |-> FALSE, line |-> 1, column |-> index + 1,
     reason |-> reason]

\* validate's Ok(()).
Accepted ==
    [done |-> TRUE, ok |-> TRUE, line |-> 0, column |-> 0, reason |-> NoReason]

NotReturned ==
    [done |-> FALSE, ok |-> FALSE, line |-> 0, column |-> 0, reason |-> NoReason]

(***************************************************************************)
(* Frames and the effect of one step of the frame on top of the stack.      *)
(***************************************************************************)

\* A call just entered: its arguments and its locals (ptr = 0,
\* unicode_len = 0).  The functions with statements before their loop start
\* at "Entry"; the others start in the loop, in State::Begin.
NewFrame(fn, start, depth) ==
    [fn |-> fn, start |-> start, depth |-> depth,
     state |-> IF fn \in {"validate", "validate_object", "validate_array"}
               THEN "Entry" ELSE "Begin",
     ptr |-> 0, unicode_len |-> 0]

Top == stack[Len(stack)]

NoReturn == [pending |-> FALSE, result |-> Ok, step |-> 0]

NoLook == [made |-> FALSE, index |-> 0, width |-> 0]

Looked(index, width) == [made |-> TRUE, index |-> index, width |-> width]

\* What a step does: go round the loop again with new locals, ...
Loop(state, ptr, look) ==
    [op |-> "loop", state |-> state, ptr |-> ptr, unicode_len |-> 0,
     look |-> look]

\* (validate_string's loop also carries unicode_len)
LoopU(state, ptr, unicode_len, look) ==
    [op |-> "loop", state |-> state, ptr |-> ptr, unicode_len |-> unicode_len,
     look |-> look]

\* ... return (result, step) to the caller, ...
Return(result, step, look) ==
    [op |-> "return", result |-> result, step |-> step, look |-> look]

\* ... call production fn(document, index, depth) and wait for its pair, ...
Call(fn, index, depth, look) ==
    [op |-> "call", fn |-> fn, index |-> index, depth |-> depth, look |-> look]

\* ... return whatever fn(document, index, depth) returns (a call in tail
\* position: the caller's frame is done), ...
TailCall(fn, index, depth, look) ==
    [op |-> "tail", fn |-> fn, index |-> index, depth |-> depth, look |-> look]

\* ... or, in validate itself, return the outcome.
Finish(result, look) == [op |-> "finish", outcome |-> result, look |-> look]

(***************************************************************************)
(* validate (validator.rs 41-95).                                           *)
(***************************************************************************)

\* Lines 55-61: the empty document, else the locals of the loop.
validate_Entry ==
    IF len = 0
    THEN Finish(error(0, Reason("JSON document can not be empty", <<>>)), NoLook)
    ELSE Loop("PreDocument", 0, NoLook)

\* Lines 66-71: look_ahead(ptr, 1) ran off the end.
validate_OutOfBound(state, ptr, look) ==
    IF state = "PreDocument"
    THEN Finish(error(ptr, Reason("No valid JSON value found", <<>>)), look)
    ELSE Finish(Accepted, look)

\* Lines 75-78: State::PreDocument, up to the call.
validate_PreDocument(ptr, chr, look) ==
    IF is_insignificant_whitespace(chr)
    THEN Loop("PreDocument", ptr + 1, look)
    ELSE Call("validate_json_value", ptr, 0, look)

\* Lines 79-84: State::PreDocument, back from validate_json_value.
validate_PreDocument_back(ptr, result, step) ==
    IF result.ok
    THEN Loop("PostDocument", ptr + step, NoLook)
    ELSE Finish(error(ptr + step, result.reason), NoLook)

\* validate_PostDocument with the trailing unit reported one past its index,
\* as validate_json_value reports an unknown character.
validate_PostDocument_one_past(ptr, chr, look) ==
    IF is_insignificant_whitespace(chr)
    THEN Loop("PostDocument", ptr + 1, look)
    ELSE Finish(error(ptr + 1, Reason("Expect EOF, but found", chr)), look)

\* Lines 87-90: State::PostDocument.
validate_PostDocument(ptr, chr, look) ==
    IF is_insignificant_whitespace(chr)
    THEN Loop("PostDocument", ptr + 1, look)
    ELSE Finish(error(ptr, Reason("Expect EOF, but found", chr)), look)

validate_step(f, r) ==
    IF f.state = "Entry" THEN validate_Entry
    ELSE IF r.pending THEN validate_PreDocument_back(f.ptr, r.result, r.step)
    ELSE LET la == look_ahead(f.ptr, 1)
             look == Looked(f.ptr, 1)
         IN  IF ~la.ok THEN validate_OutOfBound(f.state, f.ptr, look)
             ELSE IF f.state = "PreDocument"
                  THEN validate_PreDocument(f.ptr, la.s, look)
                  ELSE validate_PostDocument(f.ptr, la.s, look)

(***************************************************************************)
(* validate_json_value (validator.rs 97-121).  The productions that take no *)
(* depth are entered with 0 in the frame's depth field.                     *)
(***************************************************************************)

\* validate_json_value_dispatch entering an array at the depth of the value
\* around it, only objects counting as a level.
validate_json_value_dispatch_flat(index, depth, chr, look) ==
    IF chr = ST_LCBRACKET
    THEN TailCall("validate_object", index, depth + 1, look)
    ELSE IF chr = ST_LSBRACKET
    THEN TailCall("validate_array", index, depth, look)
    ELSE IF chr \in DigitStrings \/ chr = SP_MINUS
    THEN TailCall("validate_number", index, 0, look)
    ELSE IF chr = SP_QUOTE
    THEN TailCall("validate_string", index, 0, look)
    ELSE IF chr = LT_TRUE
    THEN TailCall("validate_true", index, 0, look)
    ELSE IF chr = LT_FALSE
    THEN TailCall("validate_false", index, 0, look)
    ELSE IF chr = LT_NULL
    THEN TailCall("validate_null", index, 0, look)
    ELSE Return(Err("Unknown character", chr), 1, look)

\* Lines 106-119: the dispatch on the unit at index.
validate_json_value_dispatch(index, depth, chr, look) ==
    IF chr = ST_LCBRACKET
    THEN TailCall("validate_object", index, depth + 1, look)
    ELSE IF chr = ST_LSBRACKET
    THEN TailCall("validate_array", index, depth + 1, look)
    ELSE IF chr \in DigitStrings \/ chr = SP_MINUS
    THEN TailCall("validate_number", index, 0, look)
    ELSE IF chr = SP_QUOTE
    THEN TailCall("validate_string", index, 0, look)
    ELSE IF chr = LT_TRUE
    THEN TailCall("validate_true", index, 0, look)
    ELSE IF chr = LT_FALSE
    THEN TailCall("validate_false", index, 0, look)
    ELSE IF chr = LT_NULL
    THEN TailCall("validate_null", index, 0, look)
    ELSE Return(Err("Unknown character", chr), 1, look)

validate_json_value_step(f, r) ==
    LET la == look_ahead(f.start, 1)
        look == Looked(f.start, 1)
    IN  IF ~la.ok
        THEN Return(Err("Look ahead out of bound", <<>>), 1, look)
        ELSE validate_json_value_dispatch(f.start, f.depth, la.s, look)

(***************************************************************************)
(* validate_object (validator.rs 123-235).                                  *)
(***************************************************************************)

\* The depth guard tripping one level early.
depth_exceeded_at_bound(depth) == depth >= MAX_DEPTH

\* Lines 137, 249: the depth guard of validate_object and validate_array.
depth_exceeded(depth) == depth > MAX_DEPTH

\* Lines 137-142.
validate_object_Entry(depth) ==
    IF depth_exceeded(depth)
    THEN Return(Err("Nested JSON value is too deep", <<>>), 0, NoLook)
    ELSE Loop("Begin", 0, NoLook)

\* Lines 149-151: look_ahead(index, 1) ran off the end, i units short.
validate_object_OutOfBound(i, look) ==
    Return(Err("Incomplete number value", <<>>), i, look)

\* Lines 155-160.
validate_object_Begin(ptr, chr, look) ==
    IF chr # ST_LCBRACKET
    THEN Return(Err("Object should start with \"{\"", <<>>), ptr, look)
    ELSE Loop("PreKey", ptr + 1, look)

\* validate_object_PreKey going round on whitespace without the ptr += 1 of
\* line 233.
validate_object_PreKey_stuck(index, ptr, chr, look) ==
    IF chr = ST_RCBRACKET THEN Return(Ok, ptr + 1, look)
    ELSE IF is_insignificant_whitespace(chr) THEN Loop("PreKey", ptr, look)
    ELSE Call("validate_string", index, 0, look)

\* Lines 161-165: State::PreKey, up to the call.
validate_object_PreKey(index, ptr, chr, look) ==
    IF chr = ST_RCBRACKET THEN Return(Ok, ptr + 1, look)
    ELSE IF is_insignificant_whitespace(chr) THEN Loop("PreKey", ptr + 1, look)
    ELSE Call("validate_string", index, 0, look)

\* Lines 179-182: State::Key, up to the call.
validate_object_Key(index, ptr, chr, look) ==
    IF is_insignificant_whitespace(chr) THEN Loop("Key", ptr + 1, look)
    ELSE Call("validate_string", index, 0, look)

\* Lines 166-176 and 183-193: back from validate_string with the key.
validate_object_Key_back(ptr, result, step) ==
    IF result.ok
    THEN Loop("PreValue", ptr + step, NoLook)
    ELSE Return(Err("Object key should be a valid string", <<>>),
                ptr + step, NoLook)

\* Lines 196-205.
validate_object_PreValue(ptr, chr, look) ==
    IF chr = ST_COLON THEN Loop("Value", ptr + 1, look)
    ELSE IF is_insignificant_whitespace(chr)
    THEN Loop("PreValue", ptr + 1, look)
    ELSE Return(Err("Invalid character after object key", chr), ptr, look)

\* Lines 206-209: State::Value, up to the call.
validate_object_Value(index, depth, ptr, chr, look) ==
    IF is_insignificant_whitespace(chr) THEN Loop("Value", ptr + 1, look)
    ELSE Call("validate_json_value", index, depth, look)

\* Lines 210-217: back from validate_json_value with the member's value.
validate_object_Value_back(ptr, result, step) ==
    IF result.ok
    THEN Loop("PostValue", ptr + step, NoLook)
    ELSE Return(result, ptr + step, NoLook)

\* validate_object_PostValue counting a unit more than it matched when the
\* object closes.
validate_object_PostValue_one_more(ptr, chr, look) ==
    IF chr = ST_RCBRACKET THEN Return(Ok, ptr + 2, look)
    ELSE IF chr = ST_COMMA THEN Loop("Key", ptr + 1, look)
    ELSE IF is_insignificant_whitespace(chr)
    THEN Loop("PostValue", ptr + 1, look)
    ELSE Return(Err("Invalid character after object value", chr), ptr, look)

\* Lines 220-230.
validate_object_PostValue(ptr, chr, look) ==
    IF chr = ST_RCBRACKET THEN Return(Ok, ptr + 1, look)
    ELSE IF chr = ST_COMMA THEN Loop("Key", ptr + 1, look)
    ELSE IF is_insignificant_whitespace(chr)
    THEN Loop("PostValue", ptr + 1, look)
    ELSE Return(Err("Invalid character after object value", chr), ptr, look)

validate_object_step(f, r) ==
    IF f.state = "Entry" THEN validate_object_Entry(f.depth)
    ELSE IF r.pending
    THEN IF f.state = "Value"
         THEN validate_object_Value_back(f.ptr, r.result, r.step)
         ELSE validate_object_Key_back(f.ptr, r.result, r.step)
    ELSE LET index == f.start + f.ptr
             la == look_ahead(index, 1)
             look == Looked(index, 1)
         IN  IF ~la.ok THEN validate_object_OutOfBound(la.n, look)
             ELSE CASE f.state = "Begin" ->
                           validate_object_Begin(f.ptr, la.s, look)
                    [] f.state = "PreKey" ->
                           validate_object_PreKey(index, f.ptr, la.s, look)
                    [] f.state = "Key" ->
                           validate_object_Key(index, f.ptr, la.s, look)
                    [] f.state = "PreValue" ->
                           validate_object_PreValue(f.ptr, la.s, look)
                    [] f.state = "Value" ->
                           validate_object_Value(index, f.depth, f.ptr, la.s, look)
                    [] f.state = "PostValue" ->
                           validate_object_PostValue(f.ptr, la.s, look)

(***************************************************************************)
(* validate_array (validator.rs 237-312).                                   *)
(***************************************************************************)

\* Lines 249-254.
validate_array_Entry(depth) ==
    IF depth_exceeded(depth)
    THEN Return(Err("Nested JSON value is too deep", <<>>), 0, NoLook)
    ELSE Loop("Begin", 0, NoLook)

\* Lines 261-263: look_ahead(index, 1) ran off the end, i units short.
validate_array_OutOfBound(i, look) ==
    Return(Err("Incomplete number value", <<>>), i, look)

\* Lines 267-272.
validate_array_Begin(ptr, chr, look) ==
    IF chr # ST_LSBRACKET
    THEN Return(Err("Array should start with \"[\"", <<>>), ptr, look)
    ELSE Loop("PreValue", ptr + 1, look)

\* Lines 273-277: State::PreValue, up to the call.
validate_array_PreValue(index, depth, ptr, chr, look) ==
    IF chr = ST_RSBRACKET THEN Return(Ok, ptr + 1, look)
    ELSE IF is_insignificant_whitespace(chr)
    THEN Loop("PreValue", ptr + 1, look)
    ELSE Call("validate_json_value", index, depth, look)

\* Lines 288-291: State::Value, up to the call.
validate_array_Value(index, depth, ptr, chr, look) ==
    IF is_insignificant_whitespace(chr) THEN Loop("Value", ptr + 1, look)
    ELSE Call("validate_json_value", index, depth, look)

\* validate_array_Value_back putting a reason of the array's in place of the
\* element's, as validate_object does for a key.
validate_array_Value_back_rewording(ptr, result, step) ==
    IF result.ok
    THEN Loop("PostValue", ptr + step, NoLook)
    ELSE Return(Err("Array element should be a valid value", <<>>),
                ptr + step, NoLook)

\* Lines 278-285 and 292-299: back from validate_json_value with an element.
validate_array_Value_back(ptr, result, step) ==
    IF result.ok
    THEN Loop("PostValue", ptr + step, NoLook)
    ELSE Return(result, ptr + step, NoLook)

\* Lines 302-307.
validate_array_PostValue(ptr, chr, look) ==
    IF chr = ST_RSBRACKET THEN Return(Ok, ptr + 1, look)
    ELSE IF chr = ST_COMMA THEN Loop("Value", ptr + 1, look)
    ELSE IF is_insignificant_whitespace(chr)
    THEN Loop("PostValue", ptr + 1, look)
    ELSE Return(Err("Invalid character", chr), ptr, look)

validate_array_step(f, r) ==
    IF f.state = "Entry" THEN validate_array_Entry(f.depth)
    ELSE IF r.pending THEN validate_array_Value_back(f.ptr, r.result, r.step)
    ELSE LET index == f.start + f.ptr
             la == look_ahead(index, 1)
             look == Looked(index, 1)
         IN  IF ~la.ok THEN validate_array_OutOfBound(la.n, look)
             ELSE CASE f.state = "Begin" ->
                           validate_array_Begin(f.ptr, la.s, look)
                    [] f.state = "PreValue" ->
                           validate_array_PreValue(index, f.depth, f.ptr, la.s, look)
                    [] f.state = "Value" ->
                           validate_array_Value(index, f.depth, f.ptr, la.s, look)
                    [] f.state = "PostValue" ->
                           validate_array_PostValue(f.ptr, la.s, look)

(***************************************************************************)
(* validate_number (validator.rs 314-456).                                  *)
(***************************************************************************)

\* Lines 327-334: only the first code point of the unit is looked at.
is_valid_demical_number(chr, non_zero) ==
    LET c == FirstChar(chr)
    IN  IF c \in 49..57 THEN TRUE
        ELSE IF c = 48 THEN ~non_zero
        ELSE FALSE

\* Lines 336-342.
is_end_of_number(chr) ==
    \/ chr \in {ST_COMMA, ST_RCBRACKET, ST_RSBRACKET}
    \/ is_insignificant_whitespace(chr)

\* The "e" | "E" patterns.
ExponentMarks == {<<101>>, <<69>>}

\* The "+" | "-" patterns.
ExponentSigns == {<<43>>, <<45>>}

\* validate_number_OutOfBound taking a number that ends at its decimal
\* point for complete.
validate_number_OutOfBound_after_point(state, ptr, tail_offset, look) ==
    IF state \in {"LeadingZero", "Integer", "PendingFraction", "Fraction",
                  "Exponent"}
    THEN Return(Ok, ptr, look)
    ELSE Return(Err("Incomplete number value", <<>>), tail_offset, look)

\* Lines 352-357: look_ahead(index, 1) ran off the end.
validate_number_OutOfBound(state, ptr, tail_offset, look) ==
    IF state \in {"LeadingZero", "Integer", "Fraction", "Exponent"}
    THEN Return(Ok, ptr, look)
    ELSE Return(Err("Incomplete number value", <<>>), tail_offset, look)

\* Lines 361-366.
validate_number_Begin(ptr, chr, look) ==
    IF chr = SP_MINUS THEN Loop("LeadingMinus", ptr + 1, look)
    ELSE IF chr = <<48>> THEN Loop("LeadingZero", ptr + 1, look)
    ELSE IF is_valid_demical_number(chr, TRUE) THEN Loop("Integer", ptr + 1, look)
    ELSE Return(Err("Invalid number leading", chr), ptr, look)

\* Lines 367-376.
validate_number_LeadingMinus(ptr, chr, look) ==
    IF chr = <<48>> THEN Loop("LeadingZero", ptr + 1, look)
    ELSE IF is_valid_demical_number(chr, TRUE) THEN Loop("Integer", ptr + 1, look)
    ELSE Return(Err("Invalid character after leading minus", chr), ptr, look)

\* Lines 377-390.
validate_number_LeadingZero(ptr, chr, look) ==
    IF chr = SP_DECIMAL_POINT THEN Loop("PendingFraction", ptr + 1, look)
    ELSE IF chr \in ExponentMarks THEN Loop("ExponentSign", ptr + 1, look)
    ELSE IF is_valid_demical_number(chr, FALSE)
    THEN Return(Err("Leading zeros are not allowed", <<>>), ptr, look)
    ELSE IF is_end_of_number(chr) THEN Return(Ok, ptr, look)
    ELSE Return(Err("Invalid character after leading zero", chr), ptr, look)

\* Lines 391-402.
validate_number_Integer(ptr, chr, look) ==
    IF chr = SP_DECIMAL_POINT THEN Loop("PendingFraction", ptr + 1, look)
    ELSE IF chr \in ExponentMarks THEN Loop("ExponentSign", ptr + 1, look)
    ELSE IF is_valid_demical_number(chr, FALSE) THEN Loop("Integer", ptr + 1, look)
    ELSE IF is_end_of_number(chr) THEN Return(Ok, ptr, look)
    ELSE Return(Err("Invalid character in interger part", chr), ptr, look)

\* Lines 403-411.
validate_number_PendingFraction(ptr, chr, look) ==
    IF is_valid_demical_number(chr, FALSE) THEN Loop("Fraction", ptr + 1, look)
    ELSE Return(Err("Invalid character after demical point", chr), ptr, look)

\* Lines 412-422.
validate_number_Fraction(ptr, chr, look) ==
    IF chr \in ExponentMarks THEN Loop("ExponentSign", ptr + 1, look)
    ELSE IF is_valid_demical_number(chr, FALSE) THEN Loop("Fraction", ptr + 1, look)
    ELSE IF is_end_of_number(chr) THEN Return(Ok, ptr, look)
    ELSE Return(Err("Invalid character in fraction part", chr), ptr, look)

\* Lines 423-432.
validate_number_ExponentSign(ptr, chr, look) ==
    IF chr \in ExponentSigns THEN Loop("PendingExponent", ptr + 1, look)
    ELSE IF is_valid_demical_number(chr, FALSE) THEN Loop("Exponent", ptr + 1, look)
    ELSE Return(Err("Invalid character in exponent part", chr), ptr, look)

\* Lines 433-441.
validate_number_PendingExponent(ptr, chr, look) ==
    IF is_valid_demical_number(chr, FALSE) THEN Loop("Exponent", ptr + 1, look)
    ELSE Return(Err("Invalid character in exponent part", chr), ptr, look)

\* Lines 442-451.
validate_number_Exponent(ptr, chr, look) ==
    IF is_valid_demical_number(chr, FALSE) THEN Loop("Exponent", ptr + 1, look)
    ELSE IF is_end_of_number(chr) THEN Return(Ok, ptr, look)
    ELSE Return(Err("Invalid character in exponent part", chr), ptr, look)

validate_number_step(f, r) ==
    LET state == f.state
        index == f.start + f.ptr
        la == look_ahead(index, 1)
        look == Looked(index, 1)
    IN  IF ~la.ok THEN validate_number_OutOfBound(state, f.ptr, la.n, look)
        ELSE CASE state = "Begin" ->
                      validate_number_Begin(f.ptr, la.s, look)
               [] state = "LeadingMinus" ->
                      validate_number_LeadingMinus(f.ptr, la.s, look)
               [] state = "LeadingZero" ->
                      validate_number_LeadingZero(f.ptr, la.s, look)
               [] state = "Integer" ->
                      validate_number_Integer(f.ptr, la.s, look)
               [] state = "PendingFraction" ->
                      validate_number_PendingFraction(f.ptr, la.s, look)
               [] state = "Fraction" ->
                      validate_number_Fraction(f.ptr, la.s, look)
               [] state = "ExponentSign" ->
                      validate_number_ExponentSign(f.ptr, la.s, look)
               [] state = "PendingExponent" ->
                      validate_number_PendingExponent(f.ptr, la.s, look)
               [] state = "Exponent" ->
                      validate_number_Exponent(f.ptr, la.s, look)

(***************************************************************************)
(* validate_string (validator.rs 458-544).                                  *)
(***************************************************************************)

\* Lines 466-472: only the first code point of the unit is looked at.
is_control_character(chr) == FirstChar(chr) \in 0..31

\* Lines 474-480: only the first code point of the unit is looked at.
is_hex_digit(chr) ==
    LET c == FirstChar(chr)
    IN  c \in 48..57 \/ c \in 65..70 \/ c \in 97..102

\* The single-character escapes of lines 516-523.
SingleEscapes ==
    {SP_QUOTE, SP_REVERSE_SOLIDUS, SP_SOLIDUS, SP_BACKSPACE, SP_FORM_FEED,
     SP_LINE_FEED, SP_CARRIAGE_RETURN, SP_CHARACTER_TABULATION}

\* Lines 491-493: look_ahead(index, 1) ran off the end, i units short.
validate_string_OutOfBound(i, look) ==
    Return(Err("Incomplete string value", <<>>), i, look)

\* Lines 497-503.
validate_string_Begin(ptr, chr, look) ==
    IF chr # SP_QUOTE
    THEN Return(Err("String value should start with \"", <<>>), ptr, look)
    ELSE LoopU("PlainText", ptr + 1, 0, look)

\* validate_string_PlainText leaving the closing quote out of the width.
validate_string_PlainText_open(ptr, unicode_len, chr, look) ==
    IF chr = SP_QUOTE THEN Return(Ok, ptr, look)
    ELSE IF chr = SP_REVERSE_SOLIDUS
    THEN LoopU("Escaping", ptr + 1, unicode_len, look)
    ELSE IF is_control_character(chr)
    THEN Return(Err("Control character should be escaped", chr), ptr, look)
    ELSE LoopU("PlainText", ptr + 1, unicode_len, look)

\* Lines 504-514.
validate_string_PlainText(ptr, unicode_len, chr, look) ==
    IF chr = SP_QUOTE THEN Return(Ok, ptr + 1, look)
    ELSE IF chr = SP_REVERSE_SOLIDUS
    THEN LoopU("Escaping", ptr + 1, unicode_len, look)
    ELSE IF is_control_character(chr)
    THEN Return(Err("Control character should be escaped", chr), ptr, look)
    ELSE LoopU("PlainText", ptr + 1, unicode_len, look)

\* Lines 515-528.
validate_string_Escaping(ptr, unicode_len, chr, look) ==
    IF chr \in SingleEscapes THEN LoopU("PlainText", ptr + 1, unicode_len, look)
    ELSE IF chr = SP_UNICODE THEN LoopU("Unicode", ptr + 1, unicode_len, look)
    ELSE Return(Err("Invalid escaping character", chr), ptr, look)

\* Lines 529-539.
validate_string_Unicode(ptr, unicode_len, chr, look) ==
    IF ~is_hex_digit(chr)
    THEN Return(Err("Invalid unicode sequence", chr), ptr, look)
    ELSE IF unicode_len + 1 = 4
    THEN LoopU("PlainText", ptr + 1, 0, look)
    ELSE LoopU("Unicode", ptr + 1, unicode_len + 1, look)

validate_string_step(f, r) ==
    LET state == f.state
        index == f.start + f.ptr
        la == look_ahead(index, 1)
        look == Looked(index, 1)
    IN  IF ~la.ok THEN validate_string_OutOfBound(la.n, look)
        ELSE CASE state = "Begin" ->
                      validate_string_Begin(f.ptr, la.s, look)
               [] state = "PlainText" ->
                      validate_string_PlainText(f.ptr, f.unicode_len, la.s, look)
               [] state = "Escaping" ->
                      validate_string_Escaping(f.ptr, f.unicode_len, la.s, look)
               [] state = "Unicode" ->
                      validate_string_Unicode(f.ptr, f.unicode_len, la.s, look)

(***************************************************************************)
(* validate_true, validate_false, validate_null (validator.rs 546-610).     *)
(***************************************************************************)

\* validate_literal reporting a mismatch without the text it found.
validate_literal_silent(start, width, literal, incomplete, mismatch) ==
    LET segment == look_ahead(start, width)
        look == Looked(start, width)
    IN  IF ~segment.ok THEN Return(Err(incomplete, <<>>), segment.n, look)
        ELSE IF segment.s = literal THEN Return(Ok, width, look)
        ELSE Return(Err(mismatch, <<>>), width, look)

\* The body the three matchers share: a lookahead of the literal's width,
\* compared verbatim; both failures name the literal.
validate_literal(start, width, literal, incomplete, mismatch) ==
    LET segment == look_ahead(start, width)
        look == Looked(start, width)
    IN  IF ~segment.ok THEN Return(Err(incomplete, <<>>), segment.n, look)
        ELSE IF segment.s = literal THEN Return(Ok, width, look)
        ELSE Return(Err(mismatch, segment.s), width, look)

validate_true_step(f, r) ==
    validate_literal(f.start, 4, LN_TRUE,
        "Incomplete literal name \"true\"",
        "It seems to be the plain value \"true\", but got")

validate_false_step(f, r) ==
    validate_literal(f.start, 5, LN_FALSE,
        "Incomplete literal name \"false\"",
        "It seems to be the plain value \"false\", but got")

validate_null_step(f, r) ==
    validate_literal(f.start, 4, LN_NULL,
        "Incomplete literal name \"null\"",
        "It seems to be the plain value \"null\", but got")

(***************************************************************************)
(* The machine: the call stack of one validate(&reader) call.               *)
(***************************************************************************)

NotRaised ==
    [set |-> FALSE, fn |-> "", start |-> 0, at |-> 0, eof |-> FALSE,
     key |-> FALSE, reason |-> NoReason]

\* History of the first failure: the production fn that detected it, the
\* index start it was called at, the absolute index at of the unit it was
\* looking at (the unit count when its lookahead ran off the end: eof), its
\* reason, and whether it was called for an object's key.
Raise(reason, look) ==
    LET eof == look.made /\ ~look_ahead(look.index, look.width).ok
    IN  [set |-> TRUE, fn |-> Top.fn, start |-> Top.start,
         at |-> IF eof THEN len ELSE Top.start + Top.ptr,
         eof |-> eof,
         key |-> /\ Len(stack) >= 2
                 /\ stack[Len(stack) - 1].fn = "validate_object"
                 /\ stack[Len(stack) - 1].state \in {"PreKey", "Key"},
         reason |-> reason]

\* The effect of the step r of the frame on top of the stack.
Apply(r) ==
    /\ looks' = IF r.look.made
                THEN [n |-> looks.n + 1, index |-> r.look.index,
                      width |-> r.look.width]
                ELSE looks
    /\ CASE r.op = "loop" ->
              /\ stack' = [stack EXCEPT ![Len(stack)] =
                              [@ EXCEPT !.state = r.state, !.ptr = r.ptr,
                                        !.unicode_len = r.unicode_len]]
              /\ ret' = NoReturn
              /\ UNCHANGED <<outcome, raised>>
         [] r.op = "call" ->
              /\ stack' = Append(stack, NewFrame(r.fn, r.index, r.depth))
              /\ ret' = NoReturn
              /\ UNCHANGED <<outcome, raised>>
         [] r.op = "tail" ->
              /\ stack' = [stack EXCEPT ![Len(stack)] =
                              NewFrame(r.fn, r.index, r.depth)]
              /\ ret' = NoReturn
              /\ UNCHANGED <<outcome, raised>>
         [] r.op = "return" ->
              /\ stack' = SubSeq(stack, 1, Len(stack) - 1)
              /\ ret' = [pending |-> TRUE, result |-> r.result, step |-> r.step]
              /\ raised' = IF ~r.result.ok /\ ~raised.set
                           THEN Raise(r.result.reason, r.look)
                           ELSE raised
              /\ UNCHANGED outcome
         [] r.op = "finish" ->
              /\ stack' = <<>>
              /\ ret' = NoReturn
              /\ outcome' = r.outcome
              /\ raised' = IF ~r.outcome.ok /\ ~raised.set
                           THEN Raise(r.outcome.reason, r.look)
                           ELSE raised
    /\ UNCHANGED <<document, begin_index_map, previous, probe>>

Running(fn) == stack # <<>> /\ Top.fn = fn

validate == Running("validate") /\ Apply(validate_step(Top, ret))

validate_json_value ==
    Running("validate_json_value") /\ Apply(validate_json_value_step(Top, ret))

validate_object ==
    Running("validate_object") /\ Apply(validate_object_step(Top, ret))

validate_array ==
    Running("validate_array") /\ Apply(validate_array_step(Top, ret))

validate_number ==
    Running("validate_number") /\ Apply(validate_number_step(Top, ret))

validate_string ==
    Running("validate_string") /\ Apply(validate_string_step(Top, ret))

validate_true ==
    Running("validate_true") /\ Apply(validate_true_step(Top, ret))

validate_false ==
    Running("validate_false") /\ Apply(validate_false_step(Top, ret))

validate_null ==
    Running("validate_null") /\ Apply(validate_null_step(Top, ret))

(***************************************************************************)
(* The documents validate is run on.                                        *)
(***************************************************************************)

\* The longest of the documents enumerated exhaustively.
MaxLen == 3

\* The code points of the exhaustive documents:  [ ] { } , " \ 0 1 - . e
\* space, CR, LF and U+0301 (combining acute accent).
ShortAlphabet ==
    {91, 93, 123, 125, 44, 34, 92, 48, 49, 45, 46, 101, 32, 13, 10, 769}

ShortTexts ==
    {Utf8String(cs) : cs \in UNION {[1..n -> ShortAlphabet] : n \in 0..MaxLen}}

\* "..." around s.
Quoted(s) == SP_QUOTE \o s \o SP_QUOTE

\* "a" and "b", as object keys.
KeyA == Quoted(<<97>>)
KeyB == Quoted(<<98>>)

\* U+0301 COMBINING ACUTE ACCENT: with the code point before it, one unit.
Accent == Utf8Encode(769)

\* CR LF: one unit.
CRLF == WS_CARRIAGE_RETURN \o WS_LINE_FEED

\* Texts put where a value is expected, well-formed and not.
ValueTexts ==
    { <<49>>,                                             \* 1
      <<45, 48, 46, 53, 101, 43, 49>>,                    \* -0.5e+1
      <<49, 48, 69, 45, 50>>,                             \* 10E-2
      KeyA,                                               \* "a"
      Quoted(<<92, 117, 48, 48, 97, 70, 92, 110>>),       \* "¯\n"
      LN_TRUE, LN_FALSE, LN_NULL,
      ST_LSBRACKET \o ST_RSBRACKET,                       \* []
      ST_LCBRACKET \o ST_RCBRACKET,                       \* {}
      <<116, 114, 117>>,                                  \* tru
      <<110, 117, 108, 120>>,                             \* nulx
      <<102, 97, 108, 115>>,                              \* fals
      <<120>>,                                            \* x
      <<48, 49>>,                                         \* 01
      <<49, 46>>,                                         \* 1.
      Quoted(<<97, 98, 92, 117, 48, 48>>),                \* "ab\u00"
      Quoted(<<92, 117, 48, 48, 52, 49, 92, 117, 48, 48>>),\* "\u0041\u00"
      Quoted(<<97, 92, 120>>),                            \* "a\x"
      Quoted(<<97, 9>>),                                  \* "a<TAB>"
      <<49, 49>> \o Accent,                               \* 11 + U+0301
      Quoted(<<92, 117, 48>> \o Accent \o <<48, 48, 48>>),\* "\u0 + U+0301 000"
      Quoted(Accent \o <<97>>)                            \* "  + U+0301 a"
    }

\* The documents that put the text v in each kind of place.
Placements(v) ==
    { v,
      WS_SPACE \o v \o WS_SPACE,
      WS_CHARACTER_TABULATION \o WS_LINE_FEED \o v \o WS_CARRIAGE_RETURN,
      CRLF \o v,
      v \o CRLF,
      v \o WS_SPACE \o <<120>>,
      v \o WS_LINE_FEED \o v,
      ST_LSBRACKET \o v \o ST_RSBRACKET,
      ST_LSBRACKET \o <<49>> \o ST_COMMA \o v \o ST_RSBRACKET,
      ST_LSBRACKET \o v \o ST_COMMA \o ST_RSBRACKET,
      ST_LSBRACKET \o v \o ST_COMMA \o WS_SPACE \o ST_RSBRACKET,
      ST_LSBRACKET \o WS_SPACE \o v \o WS_CHARACTER_TABULATION \o ST_COMMA
          \o WS_LINE_FEED \o v \o WS_CARRIAGE_RETURN \o ST_RSBRACKET,
      ST_LSBRACKET \o CRLF \o v \o ST_RSBRACKET,
      ST_LSBRACKET \o ST_LSBRACKET \o v \o ST_RSBRACKET \o ST_RSBRACKET,
      ST_LCBRACKET \o KeyA \o ST_COLON \o v \o ST_RCBRACKET,
      ST_LCBRACKET \o KeyA \o ST_COLON \o WS_SPACE \o v \o ST_RCBRACKET,
      ST_LCBRACKET \o KeyA \o ST_COLON \o v \o ST_COMMA \o ST_RCBRACKET,
      ST_LCBRACKET \o KeyA \o ST_COLON \o v \o ST_COMMA \o WS_LINE_FEED
          \o ST_RCBRACKET,
      ST_LCBRACKET \o KeyA \o ST_COLON \o <<49>> \o ST_COMMA \o KeyB
          \o ST_COLON \o v \o ST_RCBRACKET,
      ST_LCBRACKET \o WS_SPACE \o KeyA \o WS_CHARACTER_TABULATION \o ST_COLON
          \o WS_LINE_FEED \o v \o WS_CARRIAGE_RETURN \o ST_COMMA \o WS_SPACE
          \o KeyB \o ST_COLON \o v \o WS_SPACE \o ST_RCBRACKET,
      ST_LCBRACKET \o v \o ST_COLON \o <<49>> \o ST_RCBRACKET,
      ST_LCBRACKET \o KeyA \o ST_COLON \o <<49>> \o ST_COMMA \o v
          \o ST_COLON \o <<49>> \o ST_RCBRACKET,
      ST_LCBRACKET \o KeyA \o v \o ST_RCBRACKET,
      ST_LCBRACKET \o KeyA \o ST_COLON \o ST_LSBRACKET \o v \o ST_RSBRACKET
          \o ST_RCBRACKET,
      ST_LSBRACKET \o ST_LCBRACKET \o KeyA \o ST_COLON \o v \o ST_RCBRACKET
          \o ST_RSBRACKET
    }

\* The truncations of d that are texts: d cut at a character boundary.
Prefixes(d) ==
    {SubSeq(d, 1, k) : k \in {j \in 0..Len(d) :
                                 j = Len(d) \/ IsCharBoundary(d[j + 1])}}

StructuredTexts ==
    UNION {Prefixes(d) : d \in UNION {Placements(v) : v \in ValueTexts}}

\* n copies of s.
Repeat(s, n) ==
    IF n <= 0 THEN <<>>
    ELSE [i \in 1..(n * Len(s)) |-> s[((i - 1) % Len(s)) + 1]]

\* {"a":
OpenMember == ST_LCBRACKET \o KeyA \o ST_COLON

\* Documents nested n deep, closed and not, and with sibling containers at
\* the deepest level.
NestedTexts(n) ==
    { Repeat(ST_LSBRACKET, n),
      Repeat(ST_LSBRACKET, n) \o Repeat(ST_RSBRACKET, n),
      Repeat(ST_LSBRACKET, n) \o <<49>> \o Repeat(ST_RSBRACKET, n),
      Repeat(ST_LSBRACKET, n - 1)
          \o ST_LSBRACKET \o ST_RSBRACKET \o ST_COMMA
          \o ST_LCBRACKET \o ST_RCBRACKET \o ST_COMMA
          \o ST_LSBRACKET \o LN_NULL \o ST_RSBRACKET
          \o Repeat(ST_RSBRACKET, n - 1),
      Repeat(OpenMember, n),
      Repeat(OpenMember, n) \o KeyB \o Repeat(ST_RCBRACKET, n),
      Repeat(OpenMember, n - 1) \o ST_LCBRACKET \o ST_RCBRACKET
          \o Repeat(ST_RCBRACKET, n - 1),
      Repeat(ST_LSBRACKET \o OpenMember, n \div 2) \o LN_TRUE
          \o Repeat(ST_RCBRACKET \o ST_RSBRACKET, n \div 2),
      Repeat(OpenMember \o ST_LSBRACKET, n \div 2) \o OpenMember \o LN_FALSE
    }

\* Many containers, none nested deeper than 2.
WideText ==
    ST_LSBRACKET
        \o Repeat(ST_LSBRACKET \o ST_RSBRACKET \o ST_COMMA, MAX_DEPTH + 1)
        \o ST_LCBRACKET \o ST_RCBRACKET \o ST_RSBRACKET

DeepTexts ==
    UNION {NestedTexts(n) : n \in (MAX_DEPTH - 1)..(MAX_DEPTH + 2)}
        \cup {WideText}

Documents == ShortTexts \cup StructuredTexts \cup DeepTexts

\* No look_ahead call made on the reader directly.
NoProbe ==
    [made |-> FALSE, index |-> 0, width |-> 0, panic |-> FALSE,
     result |-> [ok |-> FALSE, s |-> <<>>, n |-> 0]]

NoLooks == [n |-> 0, index |-> 0, width |-> 0]

\* validate entered with its cursor kept from the call before, as if ptr
\* were a static: a call after a rejection resumes where that one stopped.
validate_call_resuming ==
    IF outcome.done /\ ~outcome.ok
    THEN [NewFrame("validate", 0, 0) EXCEPT !.state = "PreDocument",
                                            !.ptr = outcome.column - 1]
    ELSE NewFrame("validate", 0, 0)

\* validate(&reader) is entered: its arguments and locals.  Nothing of an
\* earlier call is left to start from.
validate_call == NewFrame("validate", 0, 0)

\* main.rs / test.rs: UTF8Reader::new(&document), then validate(&reader).
Init ==
    /\ \E text \in Documents :
          LET reader == UTF8Reader_new(text)
          IN  /\ document = reader.document
              /\ begin_index_map = reader.begin_index_map
    /\ outcome = NotReturned
    /\ previous = NotReturned
    /\ stack = <<validate_call>>
    /\ ret = NoReturn
    /\ raised = NotRaised
    /\ looks = NoLooks
    /\ probe = NoProbe

Next ==
    \/ validate
    \/ validate_json_value
    \/ validate_object
    \/ validate_array
    \/ validate_number
    \/ validate_string
    \/ validate_true
    \/ validate_false
    \/ validate_null

Spec == Init /\ [][Next]_vars

(***************************************************************************)
(* validate called a second time on the same reader.                        *)
(***************************************************************************)

\* validate(&reader) has returned and is called again.  The reader is
\* borrowed immutably, so it is the same; what the first call returned is
\* kept for comparison.
validate_again ==
    /\ outcome.done
    /\ ~previous.done
    /\ previous' = outcome
    /\ outcome' = NotReturned
    /\ stack' = <<validate_call>>
    /\ ret' = NoReturn
    /\ raised' = NotRaised
    /\ looks' = NoLooks
    /\ UNCHANGED <<document, begin_index_map, probe>>

RepeatNext == Next \/ validate_again

RepeatSpec == Init /\ [][RepeatNext]_vars

(***************************************************************************)
(* The reader on its own: UTF8Reader::new on a text, then look_ahead called *)
(* by a client with any index and width.                                    *)
(***************************************************************************)

\* The texts hold at most MaxUnits code points ...
MaxUnits == 3

\* ... look_ahead is called with an index up to MaxBeyond past the end ...
MaxBeyond == 2

\* ... and with a width up to MaxWidth.
MaxWidth == 5

\* Code points of 1, 2, 3 and 4 bytes, a combining mark, CR and LF:
\* a, U+00E9, U+20AC, U+10348, U+0301, CR, LF.
ReaderAlphabet == {97, 233, 8364, 66376, 769, 13, 10}

ReaderTexts ==
    {Utf8String(cs) : cs \in UNION {[1..n -> ReaderAlphabet] : n \in 0..MaxUnits}}

ReaderInit ==
    /\ \E text \in ReaderTexts :
          LET reader == UTF8Reader_new(text)
          IN  /\ document = reader.document
              /\ begin_index_map = reader.begin_index_map
    /\ outcome = NotReturned
    /\ previous = NotReturned
    /\ stack = <<>>
    /\ ret = NoReturn
    /\ raised = NotRaised
    /\ looks = NoLooks
    /\ probe = NoProbe

\* reader.look_ahead(index, width), called once.  Line 54 subtracts usizes:
\* when index > l the subtraction underflows, which panics in a build with
\* overflow checks (debug) and wraps in one without (release); in the
\* wrapped case result.n < 0 stands for 2^64 + result.n.
look_ahead_call ==
    /\ ~probe.made
    /\ \E index \in 0..(len + MaxBeyond), width \in 0..MaxWidth :
          LET result == look_ahead(index, width)
          IN  \E panic \in IF ~result.ok /\ result.n < 0 THEN BOOLEAN ELSE {FALSE} :
                 probe' = [made |-> TRUE, index |-> index, width |-> width,
                           panic |-> panic, result |-> result]
    /\ UNCHANGED <<document, begin_index_map, stack, ret, outcome, raised,
                   looks, previous>>

ReaderNext == look_ahead_call

ReaderSpec == ReaderInit /\ [][ReaderNext]_vars

(***************************************************************************)
(* The reference grammar: RFC 8259 over the code points of a text.  Each    *)
(* recognizer is given the position of the first code point of what it      *)
(* recognizes and answers the position after it, or 0 when there is no      *)
(* such thing at that position.                                             *)
(***************************************************************************)

\* The code point at position i, or -1 past the end.
At(cs, i) == IF i \in 1..Len(cs) THEN cs[i] ELSE -1

RECURSIVE Rfc_ws(_, _)
\* ws = *( %x20 / %x09 / %x0A / %x0D )
Rfc_ws(cs, i) == IF At(cs, i) \in {32, 9, 10, 13} THEN Rfc_ws(cs, i + 1) ELSE i

RECURSIVE Rfc_digits(_, _)
\* *DIGIT
Rfc_digits(cs, i) == IF At(cs, i) \in 48..57 THEN Rfc_digits(cs, i + 1) ELSE i

\* number = [ minus ] int [ frac ] [ exp ]
Rfc_number(cs, i) ==
    LET int == IF At(cs, i) = 45 THEN i + 1 ELSE i
        frac == IF At(cs, int) = 48 THEN int + 1
                ELSE IF At(cs, int) \in 49..57 THEN Rfc_digits(cs, int + 1)
                ELSE 0
        exp == IF frac = 0 THEN 0
               ELSE IF At(cs, frac) # 46 THEN frac
               ELSE IF At(cs, frac + 1) \in 48..57 THEN Rfc_digits(cs, frac + 2)
               ELSE 0
        digits == IF At(cs, exp + 1) \in {43, 45} THEN exp + 2 ELSE exp + 1
    IN  IF exp = 0 THEN 0
        ELSE IF At(cs, exp) \notin {101, 69} THEN exp
        ELSE IF At(cs, digits) \in 48..57 THEN Rfc_digits(cs, digits + 1)
        ELSE 0

Rfc_hexdig(c) == c \in 48..57 \/ c \in 65..70 \/ c \in 97..102

RECURSIVE Rfc_chars(_, _)
\* *char quotation-mark
Rfc_chars(cs, i) ==
    LET c == At(cs, i)
        e == At(cs, i + 1)
    IN  IF c = 34 THEN i + 1
        ELSE IF c = 92
        THEN IF e \in {34, 92, 47, 98, 102, 110, 114, 116}
             THEN Rfc_chars(cs, i + 2)
             ELSE IF e = 117 /\ \A k \in 2..5 : Rfc_hexdig(At(cs, i + k))
             THEN Rfc_chars(cs, i + 6)
             ELSE 0
        ELSE IF c < 32 THEN 0
        ELSE Rfc_chars(cs, i + 1)

\* string = quotation-mark *char quotation-mark
Rfc_string(cs, i) == IF At(cs, i) = 34 THEN Rfc_chars(cs, i + 1) ELSE 0

\* false / null / true
Rfc_literal(cs, i, name) ==
    IF i + Len(name) - 1 <= Len(cs) /\ SubSeq(cs, i, i + Len(name) - 1) = name
    THEN i + Len(name) ELSE 0

RECURSIVE Rfc_value(_, _)
RECURSIVE Rfc_elements(_, _)
RECURSIVE Rfc_members(_, _)

\* value = false / null / true / object / array / number / string
Rfc_value(cs, i) ==
    LET c == At(cs, i)
        first == Rfc_ws(cs, i + 1)
    IN  IF c = 91
        THEN IF At(cs, first) = 93 THEN first + 1 ELSE Rfc_elements(cs, first)
        ELSE IF c = 123
        THEN IF At(cs, first) = 125 THEN first + 1 ELSE Rfc_members(cs, first)
        ELSE IF c = 34 THEN Rfc_string(cs, i)
        ELSE IF c = 45 \/ c \in 48..57 THEN Rfc_number(cs, i)
        ELSE IF c = 116 THEN Rfc_literal(cs, i, LN_TRUE)
        ELSE IF c = 102 THEN Rfc_literal(cs, i, LN_FALSE)
        ELSE IF c = 110 THEN Rfc_literal(cs, i, LN_NULL)
        ELSE 0

\* value *( value-separator value ) end-array, from the first value on
Rfc_elements(cs, i) ==
    LET v == Rfc_value(cs, i)
        next == Rfc_ws(cs, v)
    IN  IF v = 0 THEN 0
        ELSE IF At(cs, next) = 93 THEN next + 1
        ELSE IF At(cs, next) = 44 THEN Rfc_elements(cs, Rfc_ws(cs, next + 1))
        ELSE 0

\* member *( value-separator member ) end-object, from the first member on;
\* member = string name-separator value
Rfc_members(cs, i) ==
    LET key == Rfc_string(cs, i)
        colon == Rfc_ws(cs, key)
        v == Rfc_value(cs, Rfc_ws(cs, colon + 1))
        next == Rfc_ws(cs, v)
    IN  IF key = 0 \/ At(cs, colon) # 58 \/ v = 0 THEN 0
        ELSE IF At(cs, next) = 125 THEN next + 1
        ELSE IF At(cs, next) = 44 THEN Rfc_members(cs, Rfc_ws(cs, next + 1))
        ELSE 0

\* JSON-text = ws value ws
Rfc_JSON_text(cs) ==
    LET v == Rfc_value(cs, Rfc_ws(cs, 1))
    IN  v # 0 /\ Rfc_ws(cs, v) = Len(cs) + 1

\* The longest text, in bytes, the reference grammar is asked about.
RefMaxLen == 40

\* The documents the reference grammar is asked about: the text validate was
\* given is well-formed, respectively not.
WellFormed == Len(document) <= RefMaxLen /\ Rfc_JSON_text(Chars(document))
IllFormed == Len(document) <= RefMaxLen /\ ~Rfc_JSON_text(Chars(document))

Rejected == outcome.done /\ ~outcome.ok

\* validate's position: the unit index given to error(), which the message
\* prints 1-based.
Position == outcome.column - 1

\* C1: validate rejects every document the RFC 8259 grammar rejects (it never
\* accepts a text that is not ws value ws), units of several code points
\* included.
C1_RejectsIllFormed == outcome.done /\ IllFormed => ~outcome.ok

\* C2: validate accepts every document the RFC 8259 grammar accepts.
C2_AcceptsWellFormed == outcome.done /\ WellFormed => outcome.ok

(***************************************************************************)
(* The units of the document, as the reader hands them out.                 *)
(***************************************************************************)

\* The unit at index i < len.
Unit(i) == look_ahead(i, 1).s

WhitespaceUnits ==
    {WS_CHARACTER_TABULATION, WS_LINE_FEED, WS_CARRIAGE_RETURN, WS_SPACE}

\* validate is running and its loop is in the given state.
Driver(state) == stack # <<>> /\ stack[1].state = state

ExpectEOF == "Expect EOF, but found"

\* C3: validate consumes exactly one top-level value.  Once that value has
\* been matched (the driver is in PostDocument) no production is active and
\* none is started again; a step skips one unit if it is tab, line feed,
\* carriage return or space, accepts at the end of the input, and for any
\* other unit rejects with the "Expect EOF" reason, that unit interpolated,
\* at that unit's own index.
C3_AfterTheValue ==
    LET p == stack[1].ptr
    IN  /\ Len(stack) = 1
        /\ IF p >= len
           THEN outcome' = Accepted /\ stack' = <<>>
           ELSE IF Unit(p) \in WhitespaceUnits
           THEN /\ stack' = <<[stack[1] EXCEPT !.ptr = p + 1]>>
                /\ outcome' = outcome
           ELSE /\ stack' = <<>>
                /\ outcome'.done /\ ~outcome'.ok
                /\ outcome'.column - 1 = p
                /\ outcome'.reason = Reason(ExpectEOF, Unit(p))

C3_OneValue == [][Driver("PostDocument") => C3_AfterTheValue]_vars

\* C3 happens: a value, then whitespace, then a unit that is rejected as
\* trailing content at its own index.
C3_Witness ==
    /\ Rejected /\ outcome.reason.msg = ExpectEOF
    /\ Position >= 2
    /\ Unit(Position - 1) \in WhitespaceUnits
    /\ outcome.reason.arg = Unit(Position)

\* The text is made of tab, line feed, carriage return and space only.
Blank ==
    /\ Len(document) > 0
    /\ \A b \in 1..Len(document) : document[b] \in {9, 10, 13, 32}

\* Every unit is one of the four whitespace units (CR LF, which is one unit
\* and none of the four, does not occur).
BlankUnits ==
    /\ len > 0
    /\ \A i \in 0..(len - 1) : Unit(i) \in WhitespaceUnits

NoValueFound == error(len, Reason("No valid JSON value found", <<>>))

\* C4: the document of zero units is rejected at position 0 as empty, before
\* any lookahead; a document made of insignificant whitespace only is
\* rejected because no value was found, at the position that is its unit
\* count.
C4_EmptyAndBlank ==
    outcome.done =>
        /\ len = 0 =>
              /\ outcome = error(0, Reason("JSON document can not be empty", <<>>))
              /\ Position = 0
              /\ looks.n = 0
        /\ Blank => outcome = NoValueFound /\ Position = len

\* What C4 comes to when CR LF is kept out (C10): it holds of the empty
\* document and of every document whose units are whitespace units.
C4_WhitespaceUnitsOnly ==
    outcome.done =>
        /\ len = 0 =>
              /\ outcome = error(0, Reason("JSON document can not be empty", <<>>))
              /\ Position = 0
              /\ looks.n = 0
        /\ BlankUnits => outcome = NoValueFound /\ Position = len

(***************************************************************************)
(* Nesting, read off the document: the brackets outside strings.  (The      *)
(* quotes are counted without regard to escapes: of the documents that nest *)
(* deeply only the keys are strings, and they hold no escape.)              *)
(***************************************************************************)

Openers == {i \in 0..(len - 1) : Unit(i) \in {ST_LSBRACKET, ST_LCBRACKET}}
Closers == {i \in 0..(len - 1) : Unit(i) \in {ST_RSBRACKET, ST_RCBRACKET}}
Quotes == {i \in 0..(len - 1) : Unit(i) = SP_QUOTE}

\* The containers open at index k, one opened at k included, given the
\* indexes of the opening brackets, closing brackets and quotes.
NestingAt(k, openers, closers, quotes) ==
    LET outside(i) == Cardinality({q \in quotes : q < i}) % 2 = 0
    IN  Cardinality({i \in openers : i <= k /\ outside(i)})
            - Cardinality({i \in closers : i < k /\ outside(i)})

TooDeep == Reason("Nested JSON value is too deep", <<>>)

Containers == {"validate_object", "validate_array"}

\* A container is being entered (its guard has not run yet) deeper than the
\* bound.
EnteringTooDeep ==
    /\ stack # <<>>
    /\ Top.fn \in Containers
    /\ Top.state = "Entry"
    /\ Top.depth > MAX_DEPTH

\* C5, on the outcome: a depth error is reported only at the index of a
\* bracket that opens level MAX_DEPTH + 1, the first such bracket; so not
\* for a document nested MAX_DEPTH deep at most, however many containers it
\* holds.
C5_DepthErrorAtLevel101 ==
    Rejected /\ outcome.reason = TooDeep =>
        /\ Position \in Openers
        /\ NestingAt(Position, Openers, Closers, Quotes) = MAX_DEPTH + 1
        /\ \A k \in Openers :
              k < Position => NestingAt(k, Openers, Closers, Quotes) <= MAX_DEPTH

\* C5, on the run: entering a container deeper than the bound fails at once
\* with the depth error and width 0, closed or not, and that is the error
\* validate reports, at the index of the bracket.
C5_EnteringFails ==
    /\ EnteringTooDeep =>
          /\ ret' = [pending |-> TRUE, result |-> [ok |-> FALSE, reason |-> TooDeep],
                     step |-> 0]
          /\ raised' = [set |-> TRUE, fn |-> Top.fn, start |-> Top.start,
                        at |-> Top.start, eof |-> FALSE, key |-> FALSE,
                        reason |-> TooDeep]
          /\ Len(stack') = Len(stack) - 1
    /\ raised.set /\ raised.reason = TooDeep /\ outcome'.done =>
          outcome' = error(raised.start, TooDeep)

\* C5: the depth guard.
C5_DepthGuard == [](C5_DepthErrorAtLevel101) /\ [][C5_EnteringFails]_vars

\* C5 happens: MAX_DEPTH + 1 brackets that are never closed have been
\* rejected with the depth error at the last of them.
C5_Witness ==
    /\ Rejected /\ outcome.reason = TooDeep
    /\ Position = MAX_DEPTH
    /\ len = MAX_DEPTH + 1

(***************************************************************************)
(* Positions and reasons.                                                   *)
(***************************************************************************)

LiteralMatchers == {"validate_true", "validate_false", "validate_null"}

\* C6: when the text at a value position starts with t, f or n and is not
\* the literal (the literal matcher is what failed), validate reports the
\* unit index at which that text begins, nested or not.
C6_LiteralErrorAtItsStart ==
    Rejected /\ raised.fn \in LiteralMatchers => Position = raised.start

\* C7: the position validate reports is the absolute index of the unit at
\* which the first violation was detected, the unit count when the input
\* ended early, at whatever nesting the failing production ran.
C7_PositionOfTheViolation == Rejected => Position = raised.at

KeyError == Reason("Object key should be a valid string", <<>>)

\* C8 as claimed: the reason validate reports is the reason of the
\* production that detected the violation, for a failing value and for a
\* failing key alike.
C8_ReasonUnchanged == Rejected => outcome.reason = raised.reason

\* What validate reports for the first failure.
ReportedReason == IF raised.key THEN KeyError ELSE raised.reason

\* C8, on the outcome: the reason reported is the reason of the innermost
\* production that detected the violation, except that for a string that
\* fails as an object's key the object reports its own key reason instead.
C8_ReasonOfTheFirstViolation == Rejected => outcome.reason = ReportedReason

\* C8, on the run: after the first violation nothing more is looked at; every
\* step returns from one more production, carrying an error, up to validate.
C8_Abort ==
    raised.set /\ stack # <<>> =>
        /\ looks' = looks
        /\ stack' = SubSeq(stack, 1, Len(stack) - 1)
        /\ raised' = raised
        /\ IF stack' = <<>>
           THEN outcome' = error(outcome'.column - 1, ReportedReason)
           ELSE ret'.pending /\ ret'.result = [ok |-> FALSE, reason |-> ReportedReason]

\* C8 (amended): first violation aborts; reason propagated, the key's apart.
C8_FirstViolationAborts ==
    [](C8_ReasonOfTheFirstViolation) /\ [][C8_Abort]_vars

\* C8 happens: a value nested in an array in an object failed, and validate
\* reports its reason.
C8_Witness ==
    /\ Rejected
    /\ ~raised.key
    /\ raised.fn \in {"validate_number", "validate_string"} \cup LiteralMatchers
    /\ raised.start >= 6
    /\ outcome.reason = raised.reason
    /\ Unit(0) = ST_LCBRACKET
    /\ Unit(5) = ST_LSBRACKET

IncompleteNumber == Reason("Incomplete number value", <<>>)
IncompleteString == Reason("Incomplete string value", <<>>)

\* C9: when the input ends inside an object or an array, the reason names
\* the production left open: it is not the reason of an incomplete number
\* or of an incomplete string.
C9_IncompleteContainerNamed ==
    Rejected /\ raised.eof /\ raised.fn \in Containers =>
        outcome.reason \notin {IncompleteNumber, IncompleteString}

\* The unit at index i holds whitespace characters only (CR LF is such a
\* unit).
WhitespaceRun(i) ==
    \A b \in 1..Len(Unit(i)) : Unit(i)[b] \in {9, 10, 13, 32}

\* The frame on top is between two tokens: before or after the top-level
\* value, or in an object or array after its opening bracket.
BetweenTokens ==
    /\ stack # <<>>
    /\ ~ret.pending
    /\ \/ Top.fn = "validate" /\ Top.state \in {"PreDocument", "PostDocument"}
       \/ Top.fn \in Containers /\ Top.state \notin {"Entry", "Begin"}
    /\ Top.start + Top.ptr < len

\* C10: between two tokens a unit of whitespace characters, CR LF included,
\* is skipped: the step moves the cursor past it and changes nothing else.
C10_WhitespaceSkipped ==
    [][BetweenTokens /\ WhitespaceRun(Top.start + Top.ptr) =>
          /\ stack' = [stack EXCEPT ![Len(stack)].ptr = @ + 1]
          /\ UNCHANGED <<ret, outcome, raised>>]_vars

(***************************************************************************)
(* The reader.                                                              *)
(***************************************************************************)

\* The units of the text, counted on the text: the places where a cluster
\* starts.
unit_count == Cardinality(ClusterStarts(document))

RECURSIVE Concat(_, _, _)
\* gs[lo] \o ... \o gs[hi].
Concat(gs, lo, hi) ==
    IF lo > hi THEN <<>> ELSE gs[lo] \o Concat(gs, lo + 1, hi)

\* The text of the units [index, index + width).
UnitsFrom(index, width) == Concat(graphemes(document), index + 1, index + width)

\* C11: look_ahead(index, width) never faults, whatever the index and the
\* width, an index past the unit count included: it returns the units
\* [index, index + width) exactly when index + width <= unit_count, and
\* otherwise the count of the units that remain from index, which is never
\* the result of an underflow.
C11_LookAheadTotal ==
    probe.made =>
        /\ ~probe.panic
        /\ IF probe.index + probe.width <= unit_count
           THEN /\ probe.result.ok
                /\ probe.result.s = UnitsFrom(probe.index, probe.width)
           ELSE /\ ~probe.result.ok
                /\ probe.result.n >= 0
                /\ probe.result.n =
                       IF probe.index <= unit_count
                       THEN unit_count - probe.index ELSE 0

\* C14: once the reader is built the offset map has unit_count + 1 entries,
\* starts at 0, never decreases and ends at the byte length of the text;
\* len() is unit_count; and a lookahead of width W at index i is satisfied
\* iff i + W <= unit_count.
C14_ReaderInvariant ==
    /\ Len(begin_index_map) = unit_count + 1
    /\ begin_index_map[1] = 0
    /\ \A i, j \in 1..Len(begin_index_map) :
          i <= j => begin_index_map[i] <= begin_index_map[j]
    /\ begin_index_map[Len(begin_index_map)] = Len(document)
    /\ len = unit_count
    /\ probe.made =>
          (probe.result.ok <=> probe.index + probe.width <= unit_count)

\* C14 happens: a text whose units are not its bytes, and a lookahead of
\* several units that was satisfied.
C14_Witness ==
    /\ probe.made /\ probe.result.ok
    /\ probe.width >= 2
    /\ probe.index + probe.width = unit_count
    /\ Len(document) > unit_count

\* C12: every look_ahead call validate makes, from the driver or from a
\* production at any depth, has index <= unit_count: the shortfall is never
\* negative and a satisfied call indexes the offset map within its entries.
\* And validate does not stop short of returning: as long as it has not
\* returned a step can be taken, and when no call is active it has returned
\* Accepted or Rejected.
C12_LooksInBounds ==
    /\ looks.n > 0 =>
          /\ looks.index <= len
          /\ look_ahead(looks.index, looks.width).n >= 0
          /\ IF look_ahead(looks.index, looks.width).ok
             THEN looks.index + looks.width + 1 <= Len(begin_index_map)
             ELSE looks.index + 1 <= Len(begin_index_map)
    /\ outcome.done <=> stack = <<>>
    /\ outcome.done \/ ENABLED Next
    /\ outcome.done => outcome = Accepted \/ Rejected

\* C12 happens: a container nested in another value looked ahead exactly at
\* the end of the input, and validate rejected.
C12_Witness ==
    /\ looks.n > 0 /\ looks.index = len /\ looks.width = 1
    /\ raised.set /\ raised.eof
    /\ raised.fn \in Containers
    /\ raised.start > 0
    /\ Rejected

(***************************************************************************)
(* Repeated calls.                                                          *)
(***************************************************************************)

\* C13, on the outcome: the second call on the same document returns what
\* the first returned: the same result, position and message.
C13_SameOutcome == previous.done /\ outcome.done => outcome = previous

\* C13, on the run: no step of validate changes the reader, and a call
\* starts from its arguments alone, whatever the call before left behind.
C13_ReaderUnchanged ==
    /\ document' = document
    /\ begin_index_map' = begin_index_map
    /\ outcome.done /\ ~outcome'.done =>
          /\ stack' = <<NewFrame("validate", 0, 0)>>
          /\ ret' = NoReturn

ClosesNumber(i) ==
    \/ Unit(i) \in {ST_COMMA, ST_RCBRACKET, ST_RSBRACKET}
    \/ FirstChar(Unit(i)) \in {9, 10, 13, 32}

\* The index at which the number text that starts at index start ends: the
\* first unit that closes a number, or the end of the input.
NumberEnd(start) ==
    CHOOSE k \in start..len :
        /\ k = len \/ ClosesNumber(k)
        /\ \A j \in start..(k - 1) : ~ClosesNumber(j)

\* The code points of the units [from, to).
CharsOfUnits(from, to) ==
    Chars(SubSeq(document, begin_index_map[from + 1] + 1, begin_index_map[to + 1]))

\* The code points cs are a number of RFC 8259, whole.
IsRfcNumber(cs) == Rfc_number(cs, 1) = Len(cs) + 1

\* The integer part of cs is a 0 with a digit right after it.
HasLeadingZero(cs) ==
    LET int == IF At(cs, 1) = 45 THEN 2 ELSE 1
    IN  At(cs, int) = 48 /\ At(cs, int + 1) \in 48..57

\* validate_number returns in this step.
NumberReturns == Running("validate_number") /\ Len(stack') < Len(stack)

\* C15: the number machine accepts the text from its start up to the next
\* delimiter, whitespace or the end of the input exactly when that text is
\* a number of RFC 8259, and then its width is that text's units; a 0
\* integer part with a digit right after it, after a minus or not, is
\* rejected with the leading-zeros reason.
C15_NumberShape ==
    [][NumberReturns =>
          LET to == NumberEnd(Top.start)
              cs == CharsOfUnits(Top.start, to)
          IN  /\ ret'.result.ok <=> IsRfcNumber(cs)
              /\ ret'.result.ok => ret'.step = to - Top.start
              /\ HasLeadingZero(cs) =>
                    ret'.result = Err("Leading zeros are not allowed", <<>>)]_vars

TerminalStates == {"LeadingZero", "Integer", "Fraction", "Exponent"}

NonTerminalStates ==
    {"LeadingMinus", "PendingFraction", "ExponentSign", "PendingExponent"}

\* The number machine is about to look ahead at the end of the input.
NumberAtEnd == Running("validate_number") /\ Top.start + Top.ptr = len

\* C16, on the run: when the input ends with the number machine in a
\* terminal state the number is accepted, its width the units seen; when
\* it ends in a non-terminal state (right after -, ., e, E or an exponent
\* sign) the number is rejected as an incomplete number value.
C16_AtEnd ==
    NumberAtEnd =>
        /\ Top.state \in TerminalStates \cup NonTerminalStates
        /\ ret'.pending
        /\ IF Top.state \in TerminalStates
           THEN ret'.result = Ok /\ ret'.step = Top.ptr
           ELSE ret'.result = [ok |-> FALSE, reason |-> IncompleteNumber]

\* 1.
OnePoint == <<49, 46>>

\* C16, on the outcome: a failure of the number machine at the end of the
\* input is reported with the incomplete-number reason; a document that is
\* a number ending in a non-terminal state is rejected so, in particular
\* the document 1. is; one ending in a terminal state is accepted.
C16_Outcome ==
    /\ Rejected /\ raised.fn = "validate_number" /\ raised.eof =>
          outcome.reason = IncompleteNumber
    /\ outcome.done /\ document = OnePoint =>
          Rejected /\ outcome.reason = IncompleteNumber
    /\ outcome.done /\ document \in {<<48>>, <<49>>, <<49, 46, 48>>, <<49, 101, 49>>}
          => outcome = Accepted

\* C16: the end of the input in the number machine.
C16_EndOfInput == [](C16_Outcome) /\ [][C16_AtEnd]_vars

\* C16 happens: a number nested in a container ran into the end of the
\* input right after its decimal point or exponent mark and was rejected
\* as incomplete.
C16_Witness ==
    /\ Rejected /\ outcome.reason = IncompleteNumber
    /\ raised.fn = "validate_number" /\ raised.eof
    /\ raised.start > 0
    /\ Unit(len - 1) \in {SP_DECIMAL_POINT} \cup ExponentMarks

(***************************************************************************)
(* The string machine.                                                      *)
(***************************************************************************)

\* The unit u is one hexadecimal digit, of either case, and nothing else.
IsHexUnit(u) == Len(u) = 1 /\ Rfc_hexdig(u[1])

\* The unit u holds a code point <= U+001F.
HasControl(u) == \E k \in 1..Len(Chars(u)) : Chars(u)[k] <= 31

\* The step returns an error to the caller.
ReturnsErr == Len(stack') < Len(stack) /\ ret'.pending /\ ~ret'.result.ok

\* The step goes round the loop of the frame on top: on to the next unit,
\* in the given state and with the given count of \u digits.
LoopsTo(state, unicode_len) ==
    stack' = [stack EXCEPT ![Len(stack)] =
                 [@ EXCEPT !.state = state, !.ptr = @ + 1,
                           !.unicode_len = unicode_len]]

\* C17, one step of the string machine on the unit u.
C17_OnUnit(u) ==
    CASE Top.state = "Begin" ->
             IF u = SP_QUOTE THEN LoopsTo("PlainText", 0) ELSE ReturnsErr
      [] Top.state = "PlainText" ->
             IF u = SP_QUOTE
             THEN /\ Len(stack') < Len(stack)
                  /\ ret' = [pending |-> TRUE, result |-> Ok, step |-> Top.ptr + 1]
             ELSE IF u = SP_REVERSE_SOLIDUS THEN LoopsTo("Escaping", 0)
             ELSE IF HasControl(u) THEN ReturnsErr
             ELSE LoopsTo("PlainText", 0)
      [] Top.state = "Escaping" ->
             IF u \in SingleEscapes THEN LoopsTo("PlainText", 0)
             ELSE IF u = SP_UNICODE THEN LoopsTo("Unicode", 0)
             ELSE ReturnsErr
      [] Top.state = "Unicode" ->
             IF ~IsHexUnit(u) THEN ReturnsErr
             ELSE IF Top.unicode_len = 3 THEN LoopsTo("PlainText", 0)
             ELSE LoopsTo("Unicode", Top.unicode_len + 1)

\* C17: the string machine requires the opening quote, rejects a raw unit
\* with a code point <= U+001F, takes after a backslash the eight
\* single-character escapes or u only, and after \u takes exactly 4 units
\* that are hexadecimal digits, counted from 0 for every escape: a quote, a
\* unit that is no hexadecimal digit, or the end of the input before the
\* 4th digit is rejected.
C17_StringMachine ==
    [][Running("validate_string") =>
          /\ Top.unicode_len \in 0..3
          /\ Top.state # "Unicode" => Top.unicode_len = 0
          /\ IF Top.start + Top.ptr >= len
             THEN ReturnsErr /\ ret'.result.reason = IncompleteString
             ELSE C17_OnUnit(Unit(Top.start + Top.ptr))]_vars

(***************************************************************************)
(* Objects and arrays.                                                      *)
(***************************************************************************)

\* The closing bracket of the container on top of the stack.
Closer == IF Top.fn = "validate_object" THEN ST_RCBRACKET ELSE ST_RSBRACKET

\* The states of a container right after its opening bracket, after a
\* value, and after a comma, whitespace apart.
AfterOpener == {"PreKey", "PreValue"}
AfterValue == {"PostValue"}
AfterComma == {"Key", "Value"}

\* A container is about to read the unit at its cursor in one of the given
\* states (object State::PreValue, which waits for the colon, is none of
\* them).
ContainerIn(states) ==
    /\ stack # <<>>
    /\ Top.fn \in Containers
    /\ ~ret.pending
    /\ Top.start + Top.ptr < len
    /\ IF Top.fn = "validate_object"
       THEN Top.state \in states \ {"PreValue"}
       ELSE Top.state \in states \ {"PreKey", "Key"}

\* The step returns Ok with the closing bracket counted.
ClosesOk ==
    /\ Len(stack') < Len(stack)
    /\ ret' = [pending |-> TRUE, result |-> Ok, step |-> Top.ptr + 1]

\* The last unit before index k that is not whitespace.
LastToken(k) ==
    CHOOSE j \in 0..(k - 1) :
        /\ ~WhitespaceRun(j)
        /\ \A i \in (j + 1)..(k - 1) : WhitespaceRun(i)

\* C18, one step of a container on the unit at its cursor.
C18_Step ==
    LET i == Top.start + Top.ptr
    IN  /\ ContainerIn(AfterOpener \cup AfterValue) /\ Unit(i) = Closer => ClosesOk
        /\ ContainerIn(AfterComma) /\ Unit(i) = Closer =>
              ~(Len(stack') < Len(stack) /\ ret'.result.ok)
        /\ ContainerIn(AfterOpener \cup AfterValue \cup AfterComma)
              /\ WhitespaceRun(i) =>
              stack' = [stack EXCEPT ![Len(stack)].ptr = @ + 1]
        /\ stack # <<>> /\ Top.fn \in Containers
              /\ Len(stack') < Len(stack) /\ ret'.result.ok =>
              /\ Unit(i) = Closer
              /\ Unit(LastToken(i)) # ST_COMMA

\* {"a":1,} and [1,]
TrailingCommas ==
    { ST_LCBRACKET \o KeyA \o ST_COLON \o <<49>> \o ST_COMMA \o ST_RCBRACKET,
      ST_LSBRACKET \o <<49>> \o ST_COMMA \o ST_RSBRACKET }

\* {} and []
EmptyContainers ==
    {ST_LCBRACKET \o ST_RCBRACKET, ST_LSBRACKET \o ST_RSBRACKET}

\* C18: the closing bracket of an object or array is accepted right after
\* the opening bracket and right after a value, never right after a comma,
\* whatever insignificant whitespace lies in between; so {} and [] are
\* accepted, {"a":1,} and [1,] rejected.
C18_ClosingBracket ==
    /\ [](outcome.done =>
            /\ document \in EmptyContainers => outcome = Accepted
            /\ document \in TrailingCommas => ~outcome.ok)
    /\ [][C18_Step]_vars

(***************************************************************************)
(* The literal matchers.                                                    *)
(***************************************************************************)

\* The literal a matcher expects.
LiteralOf(fn) ==
    CASE fn = "validate_true" -> LN_TRUE
      [] fn = "validate_false" -> LN_FALSE
      [] fn = "validate_null" -> LN_NULL

\* The reason of a shortfall: it names the literal.
IncompleteLiteral(fn) ==
    CASE fn = "validate_true" -> "Incomplete literal name \"true\""
      [] fn = "validate_false" -> "Incomplete literal name \"false\""
      [] fn = "validate_null" -> "Incomplete literal name \"null\""

\* The reason of a mismatch: it names the literal, and the text found is
\* interpolated after it.
MismatchedLiteral(fn) ==
    CASE fn = "validate_true" ->
             "It seems to be the plain value \"true\", but got"
      [] fn = "validate_false" ->
             "It seems to be the plain value \"false\", but got"
      [] fn = "validate_null" ->
             "It seems to be the plain value \"null\", but got"

\* The units a literal matcher that starts at index start has before it, up
\* to the width of its literal.
TextFound(fn, start) ==
    LET width == Len(LiteralOf(fn))
        remaining == len - start
    IN  UnitsFrom(start, IF remaining < width THEN remaining ELSE width)

\* C19 as claimed: a failure of a literal matcher, shortfall or mismatch, is
\* reported with the text actually found.
C19_NamesTextFound ==
    Rejected /\ raised.fn \in LiteralMatchers =>
        outcome.reason.arg = TextFound(raised.fn, raised.start)

\* C19, one step of a literal matcher: it looks ahead once, at its start,
\* the width of its literal (4, 5, 4); the units found are compared verbatim
\* with the literal; a mismatch is reported with a reason that names the
\* literal and carries the units found, a shortfall with a reason that
\* names the literal only, the width returned being the units that remain.
C19_Step ==
    stack # <<>> /\ Top.fn \in LiteralMatchers =>
        LET fn == Top.fn
            width == Len(LiteralOf(fn))
            remaining == len - Top.start
        IN  /\ width = (IF fn = "validate_false" THEN 5 ELSE 4)
            /\ looks' = [n |-> looks.n + 1, index |-> Top.start, width |-> width]
            /\ Len(stack') < Len(stack)
            /\ ret'.pending
            /\ IF remaining < width
               THEN /\ ret'.result = Err(IncompleteLiteral(fn), <<>>)
                    /\ ret'.step = remaining
               ELSE IF UnitsFrom(Top.start, width) = LiteralOf(fn)
               THEN ret'.result = Ok /\ ret'.step = width
               ELSE ret'.result =
                        Err(MismatchedLiteral(fn), UnitsFrom(Top.start, width))

\* C19 (amended): the literal matchers.
C19_LiteralMatchers == [][C19_Step]_vars

\* C19 happens: false was expected inside a container, five other units
\* were found, and validate reports them.
C19_Witness ==
    /\ Rejected
    /\ raised.fn = "validate_false" /\ raised.start > 0
    /\ outcome.reason.msg = MismatchedLiteral("validate_false")
    /\ Len(outcome.reason.arg) = 5
    /\ outcome.reason.arg = UnitsFrom(raised.start, 5)

(***************************************************************************)
(* Widths.                                                                  *)
(***************************************************************************)

\* The production on top of the stack returns Ok in this step.
ReturnsOk ==
    /\ stack # <<>>
    /\ Len(stack') < Len(stack)
    /\ ret'.pending /\ ret'.result.ok

\* The units [from, to) hold none that closes a number.
NoCloserIn(from, to) == \A j \in from..(to - 1) : ~is_end_of_number(Unit(j))

\* The width w is that of the value text the production fn matched from
\* index start on: the closing quote or bracket is its last unit, a
\* number's delimiter comes right after it.
WidthOfValue(fn, start, w) ==
    CASE fn = "validate_string" ->
             /\ w >= 2
             /\ Unit(start) = SP_QUOTE /\ Unit(start + w - 1) = SP_QUOTE
      [] fn = "validate_object" ->
             /\ w >= 2
             /\ Unit(start) = ST_LCBRACKET /\ Unit(start + w - 1) = ST_RCBRACKET
      [] fn = "validate_array" ->
             /\ w >= 2
             /\ Unit(start) = ST_LSBRACKET /\ Unit(start + w - 1) = ST_RSBRACKET
      [] fn = "validate_number" ->
             /\ NoCloserIn(start, start + w)
             /\ start + w = len \/ is_end_of_number(Unit(start + w))
      [] fn \in LiteralMatchers ->
             /\ w = Len(LiteralOf(fn))
             /\ UnitsFrom(start, w) = LiteralOf(fn)

\* C20, when a production returns Ok: its width is at least 1, is the
\* number of units it went through (its cursor, the closing unit counted),
\* is the width of the value text, and start + width does not pass the end
\* of the input.
C20_OnReturn ==
    ReturnsOk =>
        /\ ret'.step >= 1
        /\ Top.start + ret'.step <= len
        /\ WidthOfValue(Top.fn, Top.start, ret'.step)
        /\ Top.fn \in Containers \cup {"validate_string"} =>
              ret'.step = Top.ptr + 1
        /\ Top.fn = "validate_number" => ret'.step = Top.ptr

\* C20, when the caller takes the pair: its cursor moves by the width, to
\* the first unit after the value, within the input.
C20_OnResume ==
    stack # <<>> /\ ret.pending /\ ret.result.ok =>
        /\ Len(stack') = Len(stack)
        /\ stack'[Len(stack)].ptr = Top.ptr + ret.step
        /\ Top.start + Top.ptr + ret.step <= len

\* C20: the width of a production that succeeds.
C20_SuccessWidth == [][C20_OnReturn /\ C20_OnResume]_vars

\* C20 happens: a string of several units nested in a container has
\* returned Ok, and more units follow it.
C20_Witness ==
    /\ stack # <<>> /\ Top.fn \in Containers
    /\ ret.pending /\ ret.result.ok
    /\ ret.step >= 3
    /\ Unit(Top.start + Top.ptr) = SP_QUOTE
    /\ Top.start + Top.ptr + ret.step < len

(***************************************************************************)
(* Depth.                                                                   *)
(***************************************************************************)

\* The object and array invocations that are active, as positions in the
\* stack, up to position k.
ActiveContainers(k) == {j \in 1..k : stack[j].fn \in Containers}

\* C21, on the state: the object or array production that is running has
\* for depth the number of object and array invocations active, itself
\* included; once past its guard that depth lies in 1..MAX_DEPTH; in a
\* document short enough to count by hand, it is the nesting of its opening
\* bracket in the text; and at most MAX_DEPTH + 1 invocations are active.
C21_DepthIsNesting ==
    /\ Cardinality(ActiveContainers(Len(stack))) <= MAX_DEPTH + 1
    /\ stack # <<>> /\ Top.fn \in Containers =>
          /\ Top.depth = Cardinality(ActiveContainers(Len(stack)))
          /\ Top.depth >= 1
          /\ Top.state # "Entry" => Top.depth \in 1..MAX_DEPTH
          /\ Top.state \notin {"Entry", "Begin"} /\ Len(document) <= RefMaxLen =>
                Top.depth = NestingAt(Top.start, Openers, Closers, Quotes)

\* C21, on the run: no step changes the depth of an invocation that stays
\* active, whichever production takes the step (a string, a number or a
\* literal returning to its container leaves the container's depth as it
\* was), and a value nested in a container is entered at the container's
\* depth, one more if it is itself a container.
C21_DepthKept ==
    /\ \A k \in 1..Len(stack) :
          k <= Len(stack') /\ (k < Len(stack) \/ Len(stack') > Len(stack)
                                \/ stack'[k].fn = stack[k].fn)
              => stack'[k].depth = stack[k].depth
    /\ Len(stack') > Len(stack) /\ Top.fn \in Containers
          /\ stack'[Len(stack')].fn = "validate_json_value" =>
              stack'[Len(stack')].depth = Top.depth
    /\ stack # <<>> /\ Top.fn = "validate_json_value"
          /\ Len(stack') = Len(stack) =>
              stack'[Len(stack)].depth =
                  IF stack'[Len(stack)].fn \in Containers
                  THEN Top.depth + 1 ELSE 0

\* C21: the depth of the active containers.
C21_DepthOfActiveContainers ==
    [](C21_DepthIsNesting) /\ [][C21_DepthKept]_vars

\* C21 happens: MAX_DEPTH containers are active, all past their guard, and
\* a value has just returned to the innermost.
C21_Witness ==
    /\ stack # <<>> /\ Top.fn \in Containers
    /\ Top.depth = MAX_DEPTH
    /\ Top.state = "PostValue"
    /\ Cardinality(ActiveContainers(Len(stack))) = MAX_DEPTH

(***************************************************************************)
(* Termination.                                                             *)
(***************************************************************************)

\* The productions with a loop.
Machines ==
    {"validate", "validate_object", "validate_array", "validate_number",
     "validate_string"}

\* C22, one step of a machine with a loop, once in the loop: it returns
\* (its frame is gone), or its cursor is strictly greater after the step,
\* or it calls a nested production and waits, its cursor as it was; and
\* when the nested production has returned Ok the step that takes the pair
\* moves the cursor by at least one unit.
C22_Progress ==
    stack # <<>> /\ Top.fn \in Machines /\ Top.state # "Entry" =>
        \/ Len(stack') < Len(stack)
        \/ /\ Len(stack') = Len(stack)
           /\ stack'[Len(stack)].fn = Top.fn
           /\ stack'[Len(stack)].ptr > Top.ptr
           /\ ret.pending => stack'[Len(stack)].ptr >= Top.ptr + 1
        \/ /\ Len(stack') = Len(stack) + 1
           /\ ~ret.pending
           /\ stack'[Len(stack)] = Top
           /\ stack'[Len(stack')].start = Top.start + Top.ptr

\* The index the run has come to: the cursor of the production on top, the
\* width just returned to it counted in.
Cursor == Top.start + Top.ptr + (IF ret.pending THEN ret.step ELSE 0)

\* How far the run is from moving on at the index it has come to: validate
\* before its loop, a machine in its loop, a pair just returned to a
\* caller, a caller in its loop, validate_json_value entered, a container
\* before its guard, a production about to read its first unit.
Phase ==
    IF Top.fn = "validate" /\ Top.state = "Entry" THEN 9
    ELSE IF ret.pending THEN 7
    ELSE IF Top.fn = "validate_json_value" THEN 4
    ELSE IF Top.state = "Entry" THEN 3
    ELSE IF Top.state = "Begin" THEN 2
    ELSE IF Top.fn \in {"validate_number", "validate_string"} THEN 8
    ELSE 6

\* A natural number that every step makes smaller: 0 once validate has
\* returned; the frames left to unwind once a production has failed;
\* otherwise, above any number of frames, the units not yet passed, and
\* within one unit the phase.
Variant ==
    IF stack = <<>> THEN 0
    ELSE IF ret.pending /\ ~ret.result.ok THEN Len(stack)
    ELSE (MAX_DEPTH + 4) + 10 * (len + 1 - Cursor) + Phase

\* C22, on the state: the variant is a natural number, and the run is over
\* exactly when validate has returned.
C22_VariantIsNatural ==
    /\ Variant >= 0
    /\ Len(stack) < MAX_DEPTH + 4
    /\ stack # <<>> /\ ~(ret.pending /\ ~ret.result.ok) => Cursor <= len
    /\ Variant = 0 <=> outcome.done

\* C22: validate terminates: every step makes the variant smaller, so a
\* run has no more steps than the variant it starts from; and no machine
\* goes round its loop without moving its cursor.
C22_Terminates ==
    /\ [](C22_VariantIsNatural)
    /\ [][Variant' < Variant /\ C22_Progress]_vars

\* validate run to its end: a call that has started goes on.
FairSpec == Spec /\ WF_vars(Next)

\* Every run of FairSpec comes to validate's return.
Returns == <>(outcome.done)

\* C22 happens: validate went through an object of a dozen units or more,
\* the values nested in it included, looked at every unit and returned.
C22_Witness ==
    /\ outcome = Accepted
    /\ len >= 12
    /\ Unit(0) = ST_LCBRACKET
    /\ looks.n >= len

=============================================================================
